---- MODULE Spec2Model ----
(***************************************************************************)
(* Offline-first synchronisation engine of the Laxmi Shree application:   *)
(* the AppProvider component (src/src/context/AppProvider.tsx, the         *)
(* revision that starts at line 321), together with the remote store it   *)
(* talks to.                                                               *)
(*                                                                         *)
(* One action is one handler run to its next suspension point (an await   *)
(* on a remote call), followed by the React effects that the handler's    *)
(* state updates trigger: persisting the queue, and calling               *)
(* processPending when the status is connected.                           *)
(*                                                                         *)
(* A record is [id, stops]; stops is a fixed-point number in halves       *)
(* (1 is 0.5, 2 is 1.0): the form accepts any non-negative number, and    *)
(* the upsert payload passes it through parseInt.  The other fields of a  *)
(* record are sent as they are and are not modelled.                      *)
(***************************************************************************)
EXTENDS Integers, Sequences, FiniteSets, TLC

\* ---------------------------------------------------------------- bounds
MaxIds       == 2    \* record ids ever allocated (by this device or others)
MaxMutations == 2    \* addRecord/updateRecord/deleteRecord calls
MaxRemoteOps == 1    \* writes to the remote store by other devices
MaxFails     == 1    \* failing remote calls (fetch or apply)
MaxClients   == 1    \* Supabase clients created
MaxChanErr   == 1    \* CHANNEL_ERROR / TIMED_OUT callbacks
MaxEvents    == 1    \* realtime events waiting for delivery
MaxSettingsSaves == 1    \* settings upserts in flight
MaxWipes == 1    \* bulk deletes in flight

None == 0 - 1                                  \* an absent remote row
NoClient == [n |-> 0, supabaseUrl |-> 0]       \* supabaseClient === null
NoChannel == [client |-> 0, cap |-> "disconnected", joined |-> FALSE]
NoRecord == [id |-> 0, stops |-> 0]
NoConflict == [id |-> 0, stops |-> 0, theirs |-> None]
GLOBAL_SETTINGS_ID == 1
NoRow == [id |-> 0]                            \* no row in the settings table
Ids == 1..MaxIds
StopsVals == {1, 2}             \* 0.5 and 1.0

\* --------------------------------------------------------------- helpers
Range(s) == {s[i] : i \in 1..Len(s)}

RECURSIVE FilterSeq(_, _)
\* Array.prototype.filter with the predicate given as the set of kept values
FilterSeq(s, keep) ==
    IF s = <<>> THEN <<>>
    ELSE IF Head(s) \in keep THEN <<Head(s)>> \o FilterSeq(Tail(s), keep)
         ELSE FilterSeq(Tail(s), keep)

\* p_id = p.type === 'delete' ? p.id : p.record.id
OpId(p) == IF p.type = "delete" THEN p.id ELSE p.record.id

RecIds(rs) == {rs[i].id : i \in 1..Len(rs)}
OpIds(q) == {OpId(q[i]) : i \in 1..Len(q)}

\* parseInt(stops, 10) on a number given in halves
ParseInt(s) == 2 * (s \div 2)

\* the row sent by upsert: {...op.record, stops: parseInt(..), weftMeter: parseFloat(..)}
UpsertRow(rec) == [id |-> rec.id, stops |-> ParseInt(rec.stops)]

\* setPendingSync updater of syncOrQueue, as a mutant: the earlier
\* revision's [...prev, op]
SyncOrQueueAppendOnly(prev, op) == Append(prev, op)

\* syncOrQueue as a mutant: an update of a record whose add is still queued
\* is folded into that add
SyncOrQueueFoldIntoAdd(prev, op) ==
    LET newPending == FilterSeq(prev, {p \in Range(prev) : OpId(p) # OpId(op)})
        hadAdd == \E p \in Range(prev) : p.type = "add" /\ OpId(p) = OpId(op)
    IN  IF op.type = "update" /\ hadAdd
        THEN Append(newPending, [type |-> "add", record |-> op.record])
        ELSE Append(newPending, op)

\* setPendingSync updater of syncOrQueue
SyncOrQueue(prev, op) ==
    LET newPending ==
            IF op.type # "add"
            THEN FilterSeq(prev, {p \in Range(prev) : OpId(p) # OpId(op)})
            ELSE prev
    IN  Append(newPending, op)

\* setRecords updater of addRecord
AddedRecords(prev, newRecord) == Append(prev, newRecord)

\* a mutant of updateRecord's updater: the record is not replaced
UpdatedRecordsKeep(prev, updatedRecord) == prev

\* setRecords updater of updateRecord
UpdatedRecords(prev, updatedRecord) ==
    LET RECURSIVE Map(_)
        Map(s) == IF s = <<>> THEN <<>>
                  ELSE <<IF Head(s).id = updatedRecord.id
                         THEN updatedRecord ELSE Head(s)>> \o Map(Tail(s))
    IN  Map(prev)

\* setRecords updater of deleteRecord
DeletedRecords(prev, id) == FilterSeq(prev, {r \in Range(prev) : r.id # id})


RECURSIVE MapSetAll(_, _)
\* Map.prototype.set: an existing key keeps its position and takes the new
\* value, a new key goes to the end
MapSet(m, rec) ==
    IF rec.id \in RecIds(m)
    THEN UpdatedRecords(m, rec)
    ELSE Append(m, rec)

\* new Map([...entries of m, ...rows.map(r => [r.id, r])])
MapSetAll(m, rows) ==
    IF rows = <<>> THEN m ELSE MapSetAll(MapSet(m, Head(rows)), Tail(rows))

\* a mutant of the merge: the spread order reversed, local wins
MergedRecordsLocalWins(prevLocalRecords, initialRecords) ==
    MapSetAll(MapSetAll(<<>>, initialRecords), prevLocalRecords)

\* setRecords updater of initialFetch:
\* Array.from(new Map([...localRecordsMap, ...remoteRecordsMap]).values())
MergedRecords(prevLocalRecords, initialRecords) ==
    MapSetAll(MapSetAll(<<>>, prevLocalRecords), MapSetAll(<<>>, initialRecords))

\* findIndex(r => r.id === id): first index, 0 when absent
FindIndex(rs, id) ==
    IF id \in RecIds(rs)
    THEN CHOOSE i \in 1..Len(rs) :
            /\ rs[i].id = id
            /\ \A j \in 1..(i - 1) : rs[j].id # id
    ELSE 0

\* a mutant of the postgres_changes handler: the record of an INSERT or
\* UPDATE is pushed without looking for its id
EventAppliedPush(currentRecords, payload) ==
    IF payload.eventType = "UPSERT"
    THEN Append(currentRecords, payload.new)
    ELSE DeletedRecords(currentRecords, payload.old)

\* setRecords updater of the postgres_changes handler of loom_records
EventApplied(currentRecords, payload) ==
    IF payload.eventType = "UPSERT"
    THEN LET existingIndex == FindIndex(currentRecords, payload.new.id)
         IN  IF existingIndex > 0
             THEN [currentRecords EXCEPT ![existingIndex] = payload.new]
             ELSE Append(currentRecords, payload.new)
    ELSE DeletedRecords(currentRecords, payload.old)

\* a mutant of the guard of processPending: the revision without isSyncing
CanStartPassNoGuard(client, syncing, pending) ==
    client # NoClient /\ Len(pending) > 0

\* if (!supabaseClient || isSyncing.current || pendingSync.length === 0) return;
CanStartPass(client, syncing, pending) ==
    client # NoClient /\ ~syncing /\ Len(pending) > 0

\* isSyncing.current = true; opsToProcess = [...pendingSync];
\* remainingOps = [...pendingSync]; the first remote call is issued.
\* keep is remainingOps, as the positions of opsToProcess still in it;
\* out records the outcome of each call made so far.  wiped is history:
\* "local" once deleteAllData has run during the pass, "remote" once a bulk
\* delete issued during the pass has been executed.
NewPass(pending) ==
    [ops |-> pending, keep |-> 1..Len(pending), idx |-> 1,
     phase |-> "sent", out |-> <<>>, wiped |-> "no"]

\* a mutant of the effect that calls processPending: the status is not tested
AfterStatusEffectAnyStatus(fired, client, status, pending, syncing, ps) ==
    IF fired /\ CanStartPass(client, syncing, pending)
    THEN [syncing |-> TRUE, passes |-> Append(ps, NewPass(pending))]
    ELSE [syncing |-> syncing, passes |-> ps]

\* useEffect(() => { if (supabaseStatus === 'connected') processPending() },
\*           [supabaseStatus, processPending]):
\* fired says that one of the dependencies changed in this render
AfterStatusEffect(fired, client, status, pending, syncing, ps) ==
    IF fired /\ status = "connected" /\ CanStartPass(client, syncing, pending)
    THEN [syncing |-> TRUE, passes |-> Append(ps, NewPass(pending))]
    ELSE [syncing |-> syncing, passes |-> ps]

\* a mutant of remainingOps: the operations that failed are not kept
RemainingOpsCleared(pass) == <<>>

\* remainingOps as an array
RemainingOps(pass) ==
    LET RECURSIVE From(_)
        From(i) == IF i > Len(pass.ops) THEN <<>>
                   ELSE IF i \in pass.keep THEN <<pass.ops[i]>> \o From(i + 1)
                        ELSE From(i + 1)
    IN  From(1)

\* ------------------------------------------------------------- variables
VARIABLES
    isInitialized, records, settings, pendingSync,   \* useState
    supabaseClient, supabaseStatus,                   \* useState
    isSyncing,                                        \* useRef
    storedRecords, storedSettings, storedPending,     \* Local Cache
    effectClient,      \* supabaseClient as captured by the client effect
    recordsChannel,    \* the subscribed loom-records-channel
    fetches,           \* the initialFetch calls made, each with its position
    passes,            \* the processPending calls in flight
    remote,            \* remote loom_records: the stops of each row, or None
    events,            \* realtime events not yet delivered
    nextId, nMut, nRemoteOps, nFails, nClients, nChanErr,
    settingsSaves,     \* the settings upserts of updateSettings in flight,
                       \* each with its row and "sent" or "committed"
    settingsRow,       \* remote settings: the row global_settings, or NoRow
    wipes,             \* the bulk deletes of deleteAllData in flight, each
                       \* "sent" or "committed"
    nLate,             \* history: trailing operations of pendingSync that
                       \* were enqueued since the running pass started
    offAdd,            \* history: the record of the latest addRecord made
                       \* while disconnected, until anyone touches its id
    conflict,          \* history: the record of the latest updateRecord
                       \* made while disconnected, and in theirs the stops
                       \* that another device has written to the same id
                       \* before this device was connected again; until
                       \* anyone else touches the id
    last               \* history: the handler that ran last and its inputs

progVars == <<isInitialized, records, settings, pendingSync,
               supabaseClient, supabaseStatus, isSyncing>>
cacheVars == <<storedRecords, storedSettings, storedPending>>
connVars == <<effectClient, recordsChannel, fetches>>
remVars == <<remote, events, settingsRow>>
cntVars == <<nextId, nMut, nRemoteOps, nFails, nClients, nChanErr>>
callVars == <<settingsSaves, wipes>>
vars == <<progVars, cacheVars, connVars, remVars, cntVars, passes, callVars,
          nLate, offAdd, conflict, last>>

\* of the seven fields of AppSettings, one that the remote row carries as
\* it is, the two keys, and the endpoint; 0 is the empty string
DEFAULT_SETTINGS ==
    [totalMachines |-> 10, geminiApiKey |-> 0, supabaseUrl |-> 0, supabaseKey |-> 0]

\* the settings of a device that has been given the endpoint and its key
WithCredentials == [DEFAULT_SETTINGS EXCEPT !.supabaseUrl = 1, !.supabaseKey = 1]

\* the value of last after a handler that no property asks about
Other == [op |-> "other"]

\* the state after construction, before the mount effect has run.  The
\* Local Cache is either empty (first run) or that of a device which has
\* synchronised record 1 in an earlier session.
Init ==
    /\ isInitialized = FALSE
    /\ records = <<>>
    /\ settings = DEFAULT_SETTINGS
    /\ pendingSync = <<>>
    /\ supabaseClient = NoClient
    /\ supabaseStatus = "disconnected"
    /\ isSyncing = FALSE
    /\ \/ /\ storedRecords = <<>>
          /\ storedSettings = DEFAULT_SETTINGS
          /\ remote = [i \in Ids |-> None]
          /\ nextId = 1
       \/ /\ storedRecords = <<[id |-> 1, stops |-> 0]>>
          /\ storedSettings \in {DEFAULT_SETTINGS, WithCredentials}
          /\ remote = [i \in Ids |-> IF i = 1 THEN 0 ELSE None]
          /\ nextId = 2
    /\ storedPending = <<>>
    /\ effectClient = NoClient
    /\ recordsChannel = NoChannel
    /\ fetches = {}
    /\ passes = <<>>
    /\ events = <<>>
    /\ nMut = 0 /\ nRemoteOps = 0 /\ nFails = 0 /\ nClients = 0 /\ nChanErr = 0
    /\ settingsSaves = <<>>
    /\ settingsRow = NoRow
    /\ wipes = <<>>
    /\ nLate = 0
    /\ offAdd = NoRecord
    /\ conflict = NoConflict
    /\ last = Other


\* ------------------------------------------------- connection life cycle
\* the values of the settings form: no credentials, or an endpoint with its key
SettingsVals == {DEFAULT_SETTINGS, WithCredentials}

\* the same endpoint with another key
RotatedKey == [WithCredentials EXCEPT !.supabaseKey = 2]

\* the values of the whole settings form
FormVals ==
    {[totalMachines |-> m, geminiApiKey |-> g,
      supabaseUrl |-> c.supabaseUrl, supabaseKey |-> c.supabaseKey] :
        m \in {10, 20}, g \in {0, 1}, c \in SettingsVals}

\* the object spread {...prev, ...next}
Spread(prev, next) ==
    [k \in DOMAIN prev \cup DOMAIN next |->
        IF k \in DOMAIN next THEN next[k] ELSE prev[k]]

\* client.removeAllChannels() as seen by the records channel
RemoveAllChannels(client, channel) ==
    IF channel # NoChannel /\ client # NoClient /\ channel.client = client.n
    THEN NoChannel ELSE channel

\* The effects that run when settings.supabaseUrl, settings.supabaseKey or
\* isInitialized change: "initialize or tear down Supabase client", then,
\* if supabaseClient changed, "setup subscriptions and initial data load",
\* then the effect that calls processPending.  cleanup says whether the
\* client effect has returned a cleanup function before.
Connect(newSettings, cleanup, pending) ==
    LET cur      == supabaseClient
        ch1      == IF cleanup THEN RemoveAllChannels(effectClient, recordsChannel)
                    ELSE recordsChannel
        hasCreds == newSettings.supabaseUrl # 0 /\ newSettings.supabaseKey # 0
        create   == hasCreds /\ (cur = NoClient \/ cur.supabaseUrl # newSettings.supabaseUrl)
        client   == IF create
                    THEN [n |-> nClients + 1, supabaseUrl |-> newSettings.supabaseUrl]
                    ELSE IF hasCreds THEN cur ELSE NoClient
        ch2      == IF hasCreds THEN ch1 ELSE RemoveAllChannels(cur, ch1)
        status1  == IF ~hasCreds /\ cur # NoClient THEN "disconnected" ELSE supabaseStatus
        \* cleanup of the subscription effect, which captured cur
        ch3      == IF client # cur THEN RemoveAllChannels(cur, ch2) ELSE ch2
        after    == AfterStatusEffect(client # cur, client, status1, pending,
                                      isSyncing, passes)
    IN  [client  |-> client,
         captured |-> cur,
         created |-> create,
         status  |-> IF create THEN "reconnecting" ELSE status1,
         channel |-> IF create
                     THEN [client |-> client.n, cap |-> status1, joined |-> FALSE]
                     ELSE ch3,
         fetches |-> IF create
                     THEN fetches \cup {[client |-> client.n, phase |-> "settings",
                                         snap |-> <<>>]}
                     ELSE fetches,
         syncing |-> after.syncing,
         passes  |-> after.passes]

\* the same effects after a change of the settings: they run only if
\* settings.supabaseUrl or settings.supabaseKey has changed
ConnectIfChanged(newSettings) ==
    IF \/ newSettings.supabaseUrl # settings.supabaseUrl
       \/ newSettings.supabaseKey # settings.supabaseKey
    THEN Connect(newSettings, TRUE, pendingSync)
    ELSE [client |-> supabaseClient, captured |-> effectClient, created |-> FALSE,
          status |-> supabaseStatus, channel |-> recordsChannel,
          fetches |-> fetches, syncing |-> isSyncing, passes |-> passes]

\* every primed variable that Connect decides
Connected(c) ==
    /\ supabaseClient' = c.client
    /\ supabaseStatus' = c.status
    /\ recordsChannel' = c.channel
    /\ fetches' = c.fetches
    /\ isSyncing' = c.syncing
    /\ passes' = c.passes
    /\ effectClient' = c.captured
    /\ nClients' = IF c.created THEN nClients + 1 ELSE nClients
    /\ events' = IF c.channel = recordsChannel THEN events ELSE <<>>

\* a mutant of the effect that saves the queue: isInitialized is not tested
SavedPendingAlways(initialized, pending, stored) == pending

\* if (isInitialized) saveToLocalStorage(PENDING_SYNC_STORAGE_KEY, pendingSync):
\* the stored queue after the effect has run
SavedPending(initialized, pending, stored) ==
    IF initialized THEN pending ELSE stored

\* useEffect(() => {...}, []): load initial data from localStorage.  The
\* effects of the first render run with the state of construction, the load
\* first; the effects of the render that follows run with the loaded state
mount ==
    /\ ~isInitialized
    /\ LET c == Connect(storedSettings, FALSE, storedPending)
       IN  /\ c.created => nClients < MaxClients
           /\ Connected(c)
    /\ records' = storedRecords
    /\ settings' = storedSettings
    /\ pendingSync' = storedPending
    /\ isInitialized' = TRUE
    /\ LET firstRender == SavedPending(isInitialized, pendingSync, storedPending)
       IN  /\ storedPending' = SavedPending(TRUE, pendingSync', firstRender)
           /\ last' = [op |-> "mount", firstRender |-> firstRender]
    /\ UNCHANGED <<storedRecords, storedSettings, remote, settingsRow, nextId,
                   nMut, nRemoteOps, nFails, nChanErr, nLate, offAdd, conflict,
                   callVars>>

\* the process is restarted: the state in memory is that of construction
\* again, the channel, the calls in flight and their continuations are gone,
\* the Local Cache and the remote store are as they were
restart ==
    /\ isInitialized
    /\ isInitialized' = FALSE
    /\ records' = <<>>
    /\ settings' = DEFAULT_SETTINGS
    /\ pendingSync' = <<>>
    /\ supabaseClient' = NoClient
    /\ supabaseStatus' = "disconnected"
    /\ isSyncing' = FALSE
    /\ effectClient' = NoClient
    /\ recordsChannel' = NoChannel
    /\ fetches' = {}
    /\ passes' = <<>>
    /\ events' = <<>>
    /\ settingsSaves' = <<>>
    /\ wipes' = <<>>
    /\ nLate' = 0
    /\ offAdd' = NoRecord
    /\ conflict' = NoConflict
    /\ last' = [op |-> "restart", queue |-> pendingSync, records |-> records,
                status |-> supabaseStatus]
    /\ UNCHANGED <<cacheVars, remote, settingsRow, cntVars>>


\* a mutant of the test of updateSettings: the status is not looked at
SavesRemotelyAnyStatus(client, status) == client # NoClient

\* if (supabaseClient && supabaseStatus === 'connected')
SavesRemotely(client, status) == client # NoClient /\ status = "connected"

\* a mutant of the row that updateSettings sends: no field is left out
SettingsPayloadWhole(updatedSettings) ==
    Spread(updatedSettings, [id |-> GLOBAL_SETTINGS_ID])

\* const { supabaseKey, geminiApiKey, ...settingsToSave } = updatedSettings;
\* settingsWithId = { ...settingsToSave, id: GLOBAL_SETTINGS_ID }
SettingsPayload(updatedSettings) ==
    LET settingsToSave ==
            [k \in DOMAIN updatedSettings \ {"supabaseKey", "geminiApiKey"} |->
                updatedSettings[k]]
    IN  Spread(settingsToSave, [id |-> GLOBAL_SETTINGS_ID])

\* updateSettings(newSettings) with the values of the settings form: the
\* settings are set and saved, the upsert of the settings row is issued if
\* the status is connected, and the effects of the new settings run
updateSettings(newSettings) ==
    /\ isInitialized
    /\ LET updatedSettings == Spread(settings, newSettings)
           c == ConnectIfChanged(updatedSettings)
       IN  /\ updatedSettings # settings
           /\ c.created => nClients < MaxClients
           /\ Connected(c)
           /\ settings' = updatedSettings
           /\ storedSettings' = updatedSettings
           /\ IF SavesRemotely(supabaseClient, supabaseStatus)
              THEN /\ Len(settingsSaves) < MaxSettingsSaves
                   /\ settingsSaves' = Append(settingsSaves,
                         [row |-> SettingsPayload(updatedSettings)])
              ELSE UNCHANGED settingsSaves
           /\ last' = [op |-> "updateSettings", old |-> settings,
                       form |-> newSettings, new |-> updatedSettings,
                       client |-> supabaseClient, status |-> supabaseStatus]
    /\ UNCHANGED <<isInitialized, records, pendingSync, storedRecords,
                   storedPending, remote, settingsRow, nextId, nMut, nRemoteOps,
                   nFails, nChanErr, nLate, offAdd, conflict, wipes>>

\* the call k of settingsSaves without it
SettingsSavesWithout(k) ==
    SubSeq(settingsSaves, 1, k - 1) \o SubSeq(settingsSaves, k + 1, Len(settingsSaves))

\* the remote store executes upsert(settingsWithId, { onConflict: 'id' }) and
\* the call returns without error: a toast, no state of the program changes
settingsSaved(k) ==
    /\ k \in 1..Len(settingsSaves)
    /\ settingsSaves' = SettingsSavesWithout(k)
    /\ settingsRow' = IF settingsRow = NoRow THEN settingsSaves[k].row
                      ELSE Spread(settingsRow, settingsSaves[k].row)
    /\ last' = Other
    /\ UNCHANGED <<progVars, cacheVars, connVars, remote, events, cntVars, passes,
                   nLate, offAdd, conflict, wipes>>

\* the upsert of the settings row fails: the catch branch, a toast
settingsSaveError(k) ==
    /\ k \in 1..Len(settingsSaves)
    /\ nFails < MaxFails
    /\ nFails' = nFails + 1
    /\ settingsSaves' = SettingsSavesWithout(k)
    /\ last' = [op |-> "settingsSaveError"]
    /\ UNCHANGED <<progVars, cacheVars, connVars, remVars, nextId, nMut,
                   nRemoteOps, nClients, nChanErr, passes, nLate, offAdd, conflict,
                   wipes>>

\* another device saves its settings form while connected
otherDeviceSettings(m) ==
    /\ nRemoteOps < MaxRemoteOps
    /\ nRemoteOps' = nRemoteOps + 1
    /\ settingsRow' = SettingsPayload([WithCredentials EXCEPT !.totalMachines = m])
    /\ last' = Other
    /\ UNCHANGED <<progVars, cacheVars, connVars, remote, events, nextId, nMut,
                   nFails, nClients, nChanErr, passes, nLate, offAdd, conflict,
                   callVars>>

\* .subscribe((status) => ...) called with SUBSCRIBED
subscribed ==
    /\ recordsChannel # NoChannel
    /\ ~recordsChannel.joined
    /\ recordsChannel' = [recordsChannel EXCEPT !.joined = TRUE]
    /\ supabaseStatus' = IF recordsChannel.cap # "connected" THEN "connected"
                         ELSE supabaseStatus
    /\ LET after == AfterStatusEffect(supabaseStatus' # supabaseStatus,
                        supabaseClient, supabaseStatus', pendingSync,
                        isSyncing, passes)
       IN  /\ isSyncing' = after.syncing
           /\ passes' = after.passes
    /\ last' = Other
    /\ UNCHANGED <<isInitialized, records, settings, pendingSync, supabaseClient,
                   cacheVars, effectClient, fetches, remVars, cntVars, nLate, offAdd, conflict, callVars>>

\* .subscribe((status) => ...) called with CHANNEL_ERROR or TIMED_OUT; the
\* channel leaves the joined state and misses the events sent meanwhile
channelError ==
    /\ recordsChannel # NoChannel
    /\ nChanErr < MaxChanErr
    /\ nChanErr' = nChanErr + 1
    /\ recordsChannel' = [recordsChannel EXCEPT !.joined = FALSE]
    /\ events' = <<>>
    /\ supabaseStatus' = IF recordsChannel.cap # "disconnected" THEN "disconnected"
                         ELSE supabaseStatus
    /\ last' = Other
    /\ UNCHANGED <<isInitialized, records, settings, pendingSync, supabaseClient,
                   isSyncing, cacheVars, effectClient, fetches, remote, settingsRow,
                   nextId, nMut, nRemoteOps, nFails, nClients, passes, nLate, offAdd, conflict, callVars>>

\* ---------------------------------------------------------- initialFetch
\* select('*') on loom_records, rows in id order
RemoteRows(rem) ==
    LET RECURSIVE From(_)
        From(i) == IF i > MaxIds THEN <<>>
                   ELSE IF rem[i] # None
                        THEN <<[id |-> i, stops |-> rem[i]]>> \o From(i + 1)
                        ELSE From(i + 1)
    IN  From(1)

FetchMoves(f, g) == fetches' = (fetches \ {f}) \cup g

\* a mutant of the settings merge: the spread in the other order
MergedSettingsLocalWins(prev, initialSettings) == Spread(initialSettings, prev)

\* setSettings updater of initialFetch: { ...prev, ...initialSettings }
MergedSettings(prev, initialSettings) == Spread(prev, initialSettings)

\* the settings query returns the row, which is merged into the settings and
\* saved, or PGRST116 (no row), which is not an error; the records query is
\* issued, and the effects of the new settings run
fetchSettingsDone(f) ==
    /\ f \in fetches /\ f.phase = "settings"
    /\ LET newSettings == IF settingsRow # NoRow
                          THEN MergedSettings(settings, settingsRow) ELSE settings
           c == ConnectIfChanged(newSettings)
       IN  /\ c.created => nClients < MaxClients
           /\ Connected([c EXCEPT !.fetches =
                            (@ \ {f}) \cup {[f EXCEPT !.phase = "records"]}])
           /\ settings' = newSettings
           /\ storedSettings' = IF settingsRow # NoRow THEN newSettings
                                ELSE storedSettings
    /\ last' = [op |-> "settingsMerge", prev |-> settings, row |-> settingsRow,
                fetch |-> f]
    /\ UNCHANGED <<isInitialized, records, pendingSync, storedRecords,
                   storedPending, remote, settingsRow, nextId, nMut, nRemoteOps,
                   nFails, nChanErr, nLate, offAdd, conflict, callVars>>

\* the remote store answers the records query
serveRecords(f) ==
    /\ f \in fetches /\ f.phase = "records"
    /\ FetchMoves(f, {[f EXCEPT !.phase = "served", !.snap = RemoteRows(remote)]})
    /\ last' = Other
    /\ UNCHANGED <<progVars, cacheVars, effectClient, recordsChannel, remVars,
                   cntVars, passes, nLate, offAdd, conflict, callVars>>

\* the catch branch of initialFetch
fetchError(f) ==
    /\ f \in fetches /\ f.phase \in {"settings", "records", "served"}
    /\ nFails < MaxFails
    /\ nFails' = nFails + 1
    /\ FetchMoves(f, {[f EXCEPT !.phase = "failed", !.snap = <<>>]})
    /\ supabaseStatus' = "disconnected"
    /\ last' = Other
    /\ UNCHANGED <<isInitialized, records, settings, pendingSync, supabaseClient,
                   isSyncing, cacheVars, effectClient, recordsChannel, remVars,
                   nextId, nMut, nRemoteOps, nClients, nChanErr, passes, nLate, offAdd, conflict, callVars>>

\* a mutant of initialFetch: a record that only the local side has is queued
\* as an add, and the operations of the ids that the rows overwrite are dropped
QueueAfterMergeReconciled(pending, prevLocalRecords, initialRecords) ==
    LET kept == FilterSeq(pending, {p \in Range(pending) :
                                      OpId(p) \notin RecIds(initialRecords)})
        RECURSIVE Adds(_)
        Adds(rs) == IF rs = <<>> THEN <<>>
                    ELSE IF Head(rs).id \in RecIds(initialRecords) \cup OpIds(kept)
                         THEN Adds(Tail(rs))
                         ELSE <<[type |-> "add", record |-> Head(rs)]>> \o Adds(Tail(rs))
    IN  kept \o Adds(prevLocalRecords)

\* the queue after initialFetch, which makes no call of setPendingSync
QueueAfterMerge(pending, prevLocalRecords, initialRecords) == pending

\* the records query returns: merge, persist, setSupabaseStatus('connected')
fetchRecordsDone(f) ==
    /\ f \in fetches /\ f.phase = "served"
    /\ FetchMoves(f, {[f EXCEPT !.phase = "done", !.snap = <<>>]})
    /\ records' = MergedRecords(records, f.snap)
    /\ storedRecords' = records'
    /\ pendingSync' = QueueAfterMerge(pendingSync, records, f.snap)
    /\ storedPending' = pendingSync'
    /\ supabaseStatus' = "connected"
    /\ LET after == AfterStatusEffect(supabaseStatus # "connected"
                                         \/ pendingSync' # pendingSync,
                        supabaseClient, "connected", pendingSync',
                        isSyncing, passes)
       IN  /\ isSyncing' = after.syncing
           /\ passes' = after.passes
    /\ last' = [op |-> "merge", local |-> records, rows |-> f.snap]
    /\ UNCHANGED <<isInitialized, settings, supabaseClient,
                   storedSettings, effectClient, recordsChannel,
                   remVars, cntVars, nLate, offAdd, conflict, callVars>>

\* ------------------------------------------------------ record mutations
\* the operations of the tail of the queue that were enqueued during the
\* running pass and survive syncOrQueue(op), plus op itself
LateAfter(op) ==
    IF ~isSyncing THEN 0
    ELSE IF op.type = "add" THEN nLate + 1
    ELSE Cardinality({i \in (Len(pendingSync) - nLate + 1)..Len(pendingSync) :
                        OpId(pendingSync[i]) # OpId(op)}) + 1

\* syncOrQueue(op), the effect that persists the queue and the effect that
\* calls processPending
Enqueue(op) ==
    /\ pendingSync' = SyncOrQueue(pendingSync, op)
    /\ storedPending' = pendingSync'
    /\ nLate' = LateAfter(op)
    /\ LET after == AfterStatusEffect(TRUE, supabaseClient, supabaseStatus,
                                      pendingSync', isSyncing, passes)
       IN  /\ isSyncing' = after.syncing
           /\ passes' = after.passes

addRecord(stops) ==
    /\ isInitialized
    /\ nMut < MaxMutations /\ nextId <= MaxIds
    /\ LET newRecord == [id |-> nextId, stops |-> stops]    \* crypto.randomUUID()
       IN  /\ records' = AddedRecords(records, newRecord)
           /\ Enqueue([type |-> "add", record |-> newRecord])
    /\ storedRecords' = records'
    /\ nextId' = nextId + 1
    /\ nMut' = nMut + 1
    /\ offAdd' = IF supabaseStatus = "disconnected"
                  THEN [id |-> nextId, stops |-> stops] ELSE offAdd
    /\ UNCHANGED <<conflict, callVars>>
    /\ last' = [op |-> "addRecord", id |-> nextId, stops |-> stops,
                before |-> records]
    /\ UNCHANGED <<isInitialized, settings, supabaseClient, supabaseStatus,
                   storedSettings, connVars, remVars, nRemoteOps, nFails,
                   nClients, nChanErr>>

updateRecord(id, stops) ==
    /\ isInitialized
    /\ nMut < MaxMutations
    /\ id \in RecIds(records)
    /\ LET updatedRecord == [id |-> id, stops |-> stops]
       IN  /\ records' = UpdatedRecords(records, updatedRecord)
           /\ Enqueue([type |-> "update", record |-> updatedRecord])
    /\ storedRecords' = records'
    /\ nMut' = nMut + 1
    /\ offAdd' = IF offAdd.id = id THEN NoRecord ELSE offAdd
    /\ conflict' = IF supabaseStatus = "disconnected"
                    THEN [id |-> id, stops |-> stops, theirs |-> None]
                    ELSE IF conflict.id = id THEN NoConflict ELSE conflict
    /\ UNCHANGED callVars
    /\ last' = [op |-> "updateRecord", id |-> id, stops |-> stops,
                before |-> records,
                hadAdd |-> \E p \in Range(pendingSync) :
                               p.type = "add" /\ OpId(p) = id]
    /\ UNCHANGED <<isInitialized, settings, supabaseClient, supabaseStatus,
                   storedSettings, connVars, remVars, nextId, nRemoteOps, nFails,
                   nClients, nChanErr>>

deleteRecord(id) ==
    /\ isInitialized
    /\ nMut < MaxMutations
    /\ id \in RecIds(records)
    /\ records' = DeletedRecords(records, id)
    /\ Enqueue([type |-> "delete", id |-> id])
    /\ storedRecords' = records'
    /\ nMut' = nMut + 1
    /\ offAdd' = IF offAdd.id = id THEN NoRecord ELSE offAdd
    /\ conflict' = IF conflict.id = id THEN NoConflict ELSE conflict
    /\ UNCHANGED callVars
    /\ last' = [op |-> "deleteRecord", id |-> id, before |-> records]
    /\ UNCHANGED <<isInitialized, settings, supabaseClient, supabaseStatus,
                   storedSettings, connVars, remVars, nextId, nRemoteOps, nFails,
                   nClients, nChanErr>>


\* ---------------------------------------------------------- remote store
\* the realtime service sends a change only to a joined channel
Emit(payloads) ==
    IF recordsChannel # NoChannel /\ recordsChannel.joined
    THEN events \o payloads ELSE events

CanEmit ==
    (recordsChannel # NoChannel /\ recordsChannel.joined) => Len(events) < MaxEvents

\* upsert(row) on loom_records
RemoteUpsert(row) ==
    /\ CanEmit
    /\ UNCHANGED settingsRow
    /\ remote' = [remote EXCEPT ![row.id] = row.stops]
    /\ events' = Emit(<<[eventType |-> "UPSERT", new |-> row]>>)

\* delete().eq('id', id) on loom_records; no row, no event
RemoteDelete(id) ==
    /\ CanEmit
    /\ UNCHANGED settingsRow
    /\ remote' = [remote EXCEPT ![id] = None]
    /\ events' = IF remote[id] # None
                 THEN Emit(<<[eventType |-> "DELETE", old |-> id]>>)
                 ELSE events

\* history: the write of another device to the record id meets the edit
\* that this device has queued while disconnected and has not sent yet
ConflictAfterWrite(id, stops) ==
    IF /\ conflict.id = id /\ conflict.theirs = None
       /\ supabaseStatus = "disconnected"
       /\ LET mine == [type |-> "update",
                       record |-> [id |-> id, stops |-> conflict.stops]]
          IN  /\ mine \in Range(pendingSync)
              /\ \A k \in 1..Len(passes) : mine \notin Range(passes[k].ops)
    THEN [conflict EXCEPT !.theirs = ParseInt(stops)]
    ELSE IF conflict.id = id THEN NoConflict ELSE conflict

\* another device upserts a new record of its own or a row of the table
otherDeviceUpsert(id, stops) ==
    /\ nRemoteOps < MaxRemoteOps
    /\ remote[id] # None \/ (id = nextId /\ nextId <= MaxIds)
    /\ RemoteUpsert(UpsertRow([id |-> id, stops |-> stops]))
    /\ nextId' = IF id = nextId THEN nextId + 1 ELSE nextId
    /\ nRemoteOps' = nRemoteOps + 1
    /\ offAdd' = IF offAdd.id = id THEN NoRecord ELSE offAdd
    /\ conflict' = ConflictAfterWrite(id, stops)
    /\ UNCHANGED callVars
    /\ last' = Other
    /\ UNCHANGED <<progVars, cacheVars, connVars, nMut, nFails, nClients,
                   nChanErr, passes, nLate>>

\* another device deletes a row of the table
otherDeviceDelete(id) ==
    /\ nRemoteOps < MaxRemoteOps
    /\ remote[id] # None
    /\ RemoteDelete(id)
    /\ nRemoteOps' = nRemoteOps + 1
    /\ offAdd' = IF offAdd.id = id THEN NoRecord ELSE offAdd
    /\ conflict' = IF conflict.id = id THEN NoConflict ELSE conflict
    /\ UNCHANGED callVars
    /\ last' = Other
    /\ UNCHANGED <<progVars, cacheVars, connVars, nextId, nMut, nFails, nClients,
                   nChanErr, passes, nLate>>

\* the postgres_changes handler of loom-records-channel
realtimeEvent ==
    /\ recordsChannel # NoChannel /\ recordsChannel.joined
    /\ events # <<>>
    /\ events' = Tail(events)
    /\ LET payload == Head(events)
       IN  /\ IF isSyncing
              THEN UNCHANGED <<records, storedRecords>>
              ELSE /\ records' = EventApplied(records, payload)
                   /\ storedRecords' = records'
           /\ last' = [op |-> "event", payload |-> payload, before |-> records,
                       cached |-> storedRecords]
    /\ UNCHANGED <<isInitialized, settings, pendingSync, supabaseClient,
                   supabaseStatus, isSyncing, storedSettings, storedPending,
                   connVars, remote, settingsRow, cntVars, passes, nLate, offAdd,
                   conflict, callVars>>

\* -------------------------------------------------------- processPending
\* the remote store executes the call of the running pass
applyCommit(k) ==
    /\ k \in 1..Len(passes)
    /\ passes[k].phase = "sent"
    /\ LET op == passes[k].ops[passes[k].idx]
       IN  IF op.type = "delete" THEN RemoteDelete(op.id)
           ELSE RemoteUpsert(UpsertRow(op.record))
    /\ passes' = [passes EXCEPT ![k].phase = "committed"]
    /\ last' = Other
    /\ UNCHANGED <<progVars, cacheVars, connVars, cntVars, nLate, offAdd, conflict, callVars>>

\* a mutant of the end of a pass: only the operations that failed with a
\* transport error are kept
PassResultDropRejected(pass) ==
    RemainingOps([pass EXCEPT !.keep =
        {i \in pass.keep : pass.out[i] # "rejected"}])

\* what the pass writes with setPendingSync(remainingOps)
PassResult(pass) == RemainingOps(pass)

\* the continuation of processPending after the await of one call, the
\* outcome of the call already recorded in pass: the next call is issued,
\* or the pass ends with setPendingSync(remainingOps) and
\* isSyncing.current = false, and the effects of the new queue run
Continue(k, pass) ==
    IF pass.idx < Len(pass.ops)
    THEN /\ passes' = [passes EXCEPT ![k] =
                          [pass EXCEPT !.idx = pass.idx + 1, !.phase = "sent"]]
         /\ last' = Other
         /\ UNCHANGED <<pendingSync, storedPending, isSyncing, nLate>>
    ELSE /\ pendingSync' = PassResult(pass)
         /\ storedPending' = pendingSync'
         /\ nLate' = 0
         /\ LET rest  == SubSeq(passes, 1, k - 1) \o SubSeq(passes, k + 1, Len(passes))
                after == AfterStatusEffect(TRUE, supabaseClient, supabaseStatus,
                                           pendingSync', FALSE, rest)
            IN  /\ isSyncing' = after.syncing
                /\ passes' = after.passes
         /\ last' = [op |-> "passEnd", ops |-> pass.ops, out |-> pass.out,
                     wiped |-> pass.wiped,
                     late |-> SubSeq(pendingSync, Len(pendingSync) - nLate + 1,
                                     Len(pendingSync))]

\* the call returns without error: remainingOps.filter(r => r !== op)
applyOk(k) ==
    /\ k \in 1..Len(passes)
    /\ passes[k].phase = "committed"
    /\ Continue(k, [passes[k] EXCEPT !.keep = @ \ {passes[k].idx},
                                     !.out = Append(@, "ok")])
    /\ UNCHANGED <<isInitialized, records, settings, supabaseClient,
                   supabaseStatus, storedRecords, storedSettings, connVars,
                   remVars, cntVars, offAdd, conflict, callVars>>

\* the call returns an error or throws: a transport error (the call may or
\* may not have been executed) or a rejection by the remote store
applyError(k, kind) ==
    /\ k \in 1..Len(passes)
    /\ nFails < MaxFails
    /\ kind = "rejected" => passes[k].phase = "sent"
    /\ nFails' = nFails + 1
    /\ Continue(k, [passes[k] EXCEPT !.out = Append(@, kind)])
    /\ UNCHANGED <<isInitialized, records, settings, supabaseClient,
                   supabaseStatus, storedRecords, storedSettings, connVars,
                   remVars, nextId, nMut, nRemoteOps, nClients, nChanErr, offAdd, conflict, callVars>>

\* --------------------------------------------------------- deleteAllData
\* a mutant of the test of deleteAllData: the status is not looked at
DeletesRemotelyAnyStatus(client, status) == client # NoClient

\* if (supabaseClient && supabaseStatus === 'connected')
DeletesRemotely(client, status) == client # NoClient /\ status = "connected"

\* the DELETE events of the rows that a bulk delete removes, in id order
WipeEvents(rem) ==
    LET RECURSIVE From(_)
        From(i) == IF i > MaxIds THEN <<>>
                   ELSE IF rem[i] # None
                        THEN <<[eventType |-> "DELETE", old |-> i]>> \o From(i + 1)
                        ELSE From(i + 1)
    IN  From(1)

\* deleteAllData(): records and queue are emptied and saved, the bulk
\* delete is issued if the status is connected; the effects of the empty
\* queue run (processPending finds nothing to do)
deleteAllData ==
    /\ isInitialized
    /\ records' = <<>>
    /\ pendingSync' = <<>>
    /\ storedRecords' = <<>>
    /\ storedPending' = <<>>
    /\ IF DeletesRemotely(supabaseClient, supabaseStatus)
       THEN /\ Len(wipes) < MaxWipes
            /\ wipes' = Append(wipes, "sent")
       ELSE UNCHANGED wipes
    /\ nLate' = 0
    /\ offAdd' = NoRecord
    /\ conflict' = NoConflict
    /\ passes' = [k \in 1..Len(passes) |-> [passes[k] EXCEPT !.wiped = "local"]]
    /\ last' = [op |-> "deleteAllData", before |-> records, queue |-> pendingSync]
    /\ UNCHANGED <<isInitialized, settings, supabaseClient, supabaseStatus,
                   isSyncing, storedSettings, connVars, remVars, cntVars,
                   settingsSaves>>

\* the remote store executes delete().neq('id', ...): every row goes
wipeCommit(k) ==
    /\ k \in 1..Len(wipes) /\ wipes[k] = "sent"
    /\ wipes' = [wipes EXCEPT ![k] = "committed"]
    /\ remote' = [i \in Ids |-> None]
    /\ events' = Emit(WipeEvents(remote))
    /\ UNCHANGED settingsRow
    /\ passes' = [j \in 1..Len(passes) |->
                      IF passes[j].wiped = "local"
                      THEN [passes[j] EXCEPT !.wiped = "remote"] ELSE passes[j]]
    /\ offAdd' = NoRecord
    /\ conflict' = NoConflict
    /\ last' = Other
    /\ UNCHANGED <<progVars, cacheVars, connVars, cntVars, nLate,
                   settingsSaves>>

\* the bulk delete returns without error: nothing more is done
wipeOk(k) ==
    /\ k \in 1..Len(wipes) /\ wipes[k] = "committed"
    /\ wipes' = SubSeq(wipes, 1, k - 1) \o SubSeq(wipes, k + 1, Len(wipes))
    /\ last' = Other
    /\ UNCHANGED <<progVars, cacheVars, connVars, remVars, cntVars, passes,
                   nLate, offAdd, conflict, settingsSaves>>

\* the bulk delete fails, executed or not: the catch branch, a toast
wipeError(k) ==
    /\ k \in 1..Len(wipes)
    /\ nFails < MaxFails
    /\ nFails' = nFails + 1
    /\ wipes' = SubSeq(wipes, 1, k - 1) \o SubSeq(wipes, k + 1, Len(wipes))
    /\ last' = Other
    /\ UNCHANGED <<progVars, cacheVars, connVars, remVars, nextId, nMut,
                   nRemoteOps, nClients, nChanErr, passes, nLate, offAdd,
                   conflict, settingsSaves>>

\* --------------------------------------------------------- specification
\* every step but a failing apply call
NextApplyOk ==
    \/ mount
    \/ \E s \in SettingsVals : updateSettings(s)
    \/ \E k \in 1..Len(settingsSaves) : settingsSaved(k)
    \/ \E k \in 1..Len(settingsSaves) : settingsSaveError(k)
    \/ subscribed
    \/ channelError
    \/ \E f \in fetches : fetchSettingsDone(f)
    \/ \E f \in fetches : serveRecords(f)
    \/ \E f \in fetches : fetchError(f)
    \/ \E f \in fetches : fetchRecordsDone(f)
    \/ \E v \in StopsVals : addRecord(v)
    \/ \E i \in Ids, v \in StopsVals : updateRecord(i, v)
    \/ \E i \in Ids : deleteRecord(i)
    \/ \E i \in Ids, v \in StopsVals : otherDeviceUpsert(i, v)
    \/ \E i \in Ids : otherDeviceDelete(i)
    \/ realtimeEvent
    \/ \E k \in 1..Len(passes) : applyCommit(k)
    \/ \E k \in 1..Len(passes) : applyOk(k)

Next ==
    \/ NextApplyOk
    \/ \E k \in 1..Len(passes), kind \in {"transport", "rejected"} : applyError(k, kind)

Spec == Init /\ [][Next]_vars

\* the program of one device with deleteAllData: no other device writes
NextWipe ==
    \/ mount
    \/ \E s \in SettingsVals : updateSettings(s)
    \/ \E k \in 1..Len(settingsSaves) : settingsSaved(k)
    \/ subscribed
    \/ \E f \in fetches : fetchSettingsDone(f)
    \/ \E f \in fetches : serveRecords(f)
    \/ \E f \in fetches : fetchError(f)
    \/ \E f \in fetches : fetchRecordsDone(f)
    \/ \E v \in StopsVals : addRecord(v)
    \/ \E i \in Ids, v \in StopsVals : updateRecord(i, v)
    \/ \E i \in Ids : deleteRecord(i)
    \/ realtimeEvent
    \/ \E k \in 1..Len(passes) : applyCommit(k)
    \/ \E k \in 1..Len(passes) : applyOk(k)
    \/ \E k \in 1..Len(passes), kind \in {"transport", "rejected"} : applyError(k, kind)
    \/ deleteAllData
    \/ \E k \in 1..Len(wipes) : wipeCommit(k)
    \/ \E k \in 1..Len(wipes) : wipeOk(k)
    \/ \E k \in 1..Len(wipes) : wipeError(k)

SpecWipe == Init /\ [][NextWipe]_vars

\* the program of one device that may be restarted
NextRestart ==
    \/ mount
    \/ restart
    \/ \E s \in SettingsVals : updateSettings(s)
    \/ \E k \in 1..Len(settingsSaves) : settingsSaved(k)
    \/ subscribed
    \/ channelError
    \/ \E f \in fetches : fetchSettingsDone(f)
    \/ \E f \in fetches : serveRecords(f)
    \/ \E f \in fetches : fetchError(f)
    \/ \E f \in fetches : fetchRecordsDone(f)
    \/ \E v \in StopsVals : addRecord(v)
    \/ \E i \in Ids, v \in StopsVals : updateRecord(i, v)
    \/ \E i \in Ids : deleteRecord(i)
    \/ realtimeEvent
    \/ \E k \in 1..Len(passes) : applyCommit(k)
    \/ \E k \in 1..Len(passes) : applyOk(k)
    \/ \E k \in 1..Len(passes), kind \in {"transport", "rejected"} : applyError(k, kind)
    \/ deleteAllData

SpecRestart == Init /\ [][NextRestart]_vars

\* the connection life cycle alone: the settings form, in which the key of
\* the endpoint may also be replaced, the initial fetch, the records
\* channel and the writes of other devices; no record is changed locally
NextConnection ==
    \/ mount
    \/ \E s \in SettingsVals \cup {RotatedKey} : updateSettings(s)
    \/ \E k \in 1..Len(settingsSaves) : settingsSaved(k)
    \/ \E k \in 1..Len(settingsSaves) : settingsSaveError(k)
    \/ subscribed
    \/ channelError
    \/ \E f \in fetches : fetchSettingsDone(f)
    \/ \E f \in fetches : serveRecords(f)
    \/ \E f \in fetches : fetchError(f)
    \/ \E f \in fetches : fetchRecordsDone(f)
    \/ \E i \in Ids, v \in StopsVals : otherDeviceUpsert(i, v)
    \/ \E i \in Ids : otherDeviceDelete(i)
    \/ realtimeEvent

SpecConnection == Init /\ [][NextConnection]_vars

\* the settings alone: the whole settings form, the upsert of the settings
\* row, the initial fetch with its settings merge, the records channel and
\* the settings form of another device; no record is changed
NextSettings ==
    \/ mount
    \/ \E s \in FormVals : updateSettings(s)
    \/ \E k \in 1..Len(settingsSaves) : settingsSaved(k)
    \/ \E k \in 1..Len(settingsSaves) : settingsSaveError(k)
    \/ subscribed
    \/ channelError
    \/ \E f \in fetches : fetchSettingsDone(f)
    \/ \E f \in fetches : serveRecords(f)
    \/ \E f \in fetches : fetchError(f)
    \/ \E f \in fetches : fetchRecordsDone(f)
    \/ \E m \in {10, 20} : otherDeviceSettings(m)

SpecSettings == Init /\ [][NextSettings]_vars

\* the program when every remote apply call succeeds
SpecApplyOk == Init /\ [][NextApplyOk]_vars

\* the program with a remote side that answers every apply call, delivers
\* every event it has sent and reports TIMED_OUT or CHANNEL_ERROR on a
\* channel, but may leave the initial fetch and the subscription unanswered
SpecFetchMayStall ==
    /\ Init /\ [][Next]_vars
    /\ WF_vars(channelError)
    /\ WF_vars(realtimeEvent)
    /\ WF_vars(\E k \in 1..Len(passes) : applyCommit(k))
    /\ WF_vars(\E k \in 1..Len(passes) : applyOk(k))


\* ------------------------------------------------------------ properties
\* the records of rs that carry the id
WithId(rs, id) == {r \in Range(rs) : r.id = id}

\* no two entries of the queue q are for the same record id
OnePerId(q) ==
    \A i, j \in 1..Len(q) : i # j => OpId(q[i]) # OpId(q[j])

\* C1: in every reachable state the pending queue (in memory and as
\* persisted) holds at most one operation per record id, whatever
\* updateRecord, deleteRecord and the end of a pass did to it.
C1_OneOperationPerId ==
    OnePerId(pendingSync) /\ OnePerId(storedPending)

\* C1, its case: a second mutation of a record that already had a queued
\* operation, on a device that has never drained its queue
C1_Witness ==
    /\ last.op \in {"updateRecord", "deleteRecord"}
    /\ nClients = 0
    /\ nMut = 2
    /\ Len(pendingSync) = 1


\* the operations of a finished pass by outcome; last.op = "passEnd"
Applied  == {last.ops[i] : i \in {j \in 1..Len(last.ops) : last.out[j] = "ok"}}
Rejected == {last.ops[i] : i \in {j \in 1..Len(last.ops) : last.out[j] = "rejected"}}
TransportFailed ==
    {last.ops[i] : i \in {j \in 1..Len(last.ops) : last.out[j] = "transport"}}

\* C2: when a pass ends, every operation that was enqueued while it ran
\* (and that the pass did not itself apply) is in the pending queue.
C2_LateOperationsSurvive ==
    last.op = "passEnd" =>
        \A i \in 1..Len(last.late) :
            last.late[i] \in Range(pendingSync) \/ last.late[i] \in Applied

\* C3: a record with an integer stop count that was added while
\* disconnected and has not been touched since is, once the status is
\* connected and the queue has drained with no pass left, a row of the
\* remote store with its values unchanged (checked with every apply call
\* succeeding).
C3_OfflineAddReachesRemote ==
    ( /\ offAdd # NoRecord
      /\ ParseInt(offAdd.stops) = offAdd.stops
      /\ supabaseStatus = "connected"
      /\ pendingSync = <<>> /\ passes = <<>> )
    => remote[offAdd.id] = offAdd.stops

\* the record id of a realtime event
EventId(payload) ==
    IF payload.eventType = "UPSERT" THEN payload.new.id ELSE payload.old

\* the ids with an operation in the queue or in a pass in flight
BusyIds ==
    OpIds(pendingSync) \cup UNION {OpIds(passes[k].ops) : k \in 1..Len(passes)}

\* C4: a realtime event for a record id that has a queued or in-flight
\* operation changes the record of that id neither in memory nor in the
\* Local Cache.
C4_Suppressed ==
    (last.op = "event" /\ EventId(last.payload) \in BusyIds) =>
        /\ WithId(records, EventId(last.payload))
             = WithId(last.before, EventId(last.payload))
        /\ WithId(storedRecords, EventId(last.payload))
             = WithId(last.cached, EventId(last.payload))

\* the initial fetch of the current client has merged its records
MergeDone ==
    \E f \in fetches : f.client = supabaseClient.n /\ f.phase = "done"

\* C5: after the initial merge, a realtime event for a record id with no
\* queued or in-flight operation is applied in memory and in the Local
\* Cache, also while a pass for other ids runs.
C5_Applied ==
    (last.op = "event" /\ MergeDone /\ EventId(last.payload) \notin BusyIds) =>
        /\ WithId(records, EventId(last.payload))
             = IF last.payload.eventType = "UPSERT" THEN {last.payload.new} ELSE {}
        /\ \A i \in Ids \ {EventId(last.payload)} :
               WithId(records, i) = WithId(last.before, i)
        /\ storedRecords = records

\* C6: the initial merge of local records L and fetched rows R holds exactly
\* one record per id of either side, R's for an id of R and L's for an id
\* only in L, and it is what is in memory and what is persisted.
C6_MergePolicy ==
    last.op = "merge" =>
        /\ RecIds(records) = RecIds(last.local) \cup RecIds(last.rows)
        /\ Len(records) = Cardinality(RecIds(records))
        /\ \A r \in Range(last.rows) : r \in Range(records)
        /\ \A l \in Range(last.local) :
               l.id \notin RecIds(last.rows) => l \in Range(records)
        /\ storedRecords = records

\* C6, its case: an id on both sides with different contents, and an id
\* that only the local side has
C6_Witness ==
    /\ last.op = "merge"
    /\ \E l \in Range(last.local), r \in Range(last.rows) : l.id = r.id /\ l # r
    /\ \E l \in Range(last.local) : l.id \notin RecIds(last.rows)

\* C7: after addRecord, updateRecord or deleteRecord made while
\* disconnected, the records in memory are those before the call with the
\* new record appended, the record of that id replaced, or the record of
\* that id removed, and the persisted records are the same.
C7_LocalEffect ==
    (last.op \in {"addRecord", "updateRecord", "deleteRecord"}
        /\ supabaseStatus = "disconnected") =>
        /\ storedRecords = records
        /\ last.op = "addRecord" =>
              /\ last.id \notin RecIds(last.before)
              /\ records = last.before \o <<[id |-> last.id, stops |-> last.stops]>>
        /\ last.op = "updateRecord" =>
              /\ Len(records) = Len(last.before)
              /\ \A i \in 1..Len(records) :
                    records[i] = IF last.before[i].id = last.id
                                 THEN [id |-> last.id, stops |-> last.stops]
                                 ELSE last.before[i]
        /\ last.op = "deleteRecord" =>
              /\ last.id \notin RecIds(records)
              /\ Range(records) = {r \in Range(last.before) : r.id # last.id}
              /\ Len(records) = Cardinality(Range(records))

\* C7, its case: the second call of a sequence made on a device that was
\* never connected, replacing the stops of a record
C7_Witness ==
    /\ last.op = "updateRecord"
    /\ supabaseStatus = "disconnected" /\ nClients = 0
    /\ nMut = 2
    /\ records # last.before

\* C8: at most one pass of processPending is in progress, and isSyncing is
\* set exactly while it is.
C8_OnePass ==
    /\ Len(passes) <= 1
    /\ isSyncing <=> passes # <<>>

\* C8, its case: the queue changed while the status was connected and a
\* pass was waiting for its remote call, and no second pass was started
C8_Witness ==
    /\ last.op \in {"addRecord", "updateRecord", "deleteRecord"}
    /\ supabaseStatus = "connected"
    /\ nLate > 0
    /\ Len(passes) = 1 /\ passes[1].phase = "sent"

\* C9: after a pass, an operation that failed with a transport error is
\* still queued, an applied one is not, and the queue is exactly the failed
\* operations plus those enqueued meanwhile.
C9_QueueAfterPass ==
    last.op = "passEnd" =>
        /\ \A op \in TransportFailed :
               OpId(op) \notin OpIds(last.late) => op \in Range(pendingSync)
        /\ \A op \in Applied :
               op \in Range(pendingSync) => op \in Range(last.late)
        /\ Range(last.late) \subseteq Range(pendingSync)
        /\ Range(pendingSync) \subseteq
               TransportFailed \cup Rejected \cup Range(last.late)

OpsFor(q, id) == {i \in 1..Len(q) : OpId(q[i]) = id}

\* C11 as stated: after updateRecord of a record whose Add is still queued,
\* the queue holds one operation for the id, an Add with the values of the
\* update.
C11_CollapsesIntoAdd ==
    (last.op = "updateRecord" /\ last.hadAdd) =>
        /\ Cardinality(OpsFor(pendingSync, last.id)) = 1
        /\ \A i \in OpsFor(pendingSync, last.id) :
               pendingSync[i] = [type |-> "add",
                                 record |-> [id |-> last.id, stops |-> last.stops]]

\* C11 as amended: after updateRecord of a record whose Add is still queued,
\* the queue (in memory and persisted) holds one operation for the id, an
\* Update with the values of the update; the Add is gone.
C11_ReplacedByUpdate ==
    (last.op = "updateRecord" /\ last.hadAdd) =>
        /\ Cardinality(OpsFor(pendingSync, last.id)) = 1
        /\ \A i \in OpsFor(pendingSync, last.id) :
               pendingSync[i] = [type |-> "update",
                                 record |-> [id |-> last.id, stops |-> last.stops]]
        /\ storedPending = pendingSync

\* C11, its case: a record added on a device that never connected is
\* updated to other values while its Add is queued
C11_Witness ==
    /\ last.op = "updateRecord" /\ last.hadAdd
    /\ nClients = 0 /\ supabaseStatus = "disconnected"
    /\ \E r \in WithId(last.before, last.id) : r.stops # last.stops

\* C12: whenever the status is connected, the initial fetch of the current
\* client (settings, then the full record set) has completed with its merge;
\* it has neither failed nor is it still under way.
C12_ConnectedAfterFetch ==
    supabaseStatus = "connected" => MergeDone

\* C13: as long as the client whose initial fetch has failed is the current
\* one (no change of the credentials has replaced or removed it), the
\* status is disconnected.
C13_FailedAttemptStaysDisconnected ==
    \A f \in fetches :
        (f.client = supabaseClient.n /\ f.phase = "failed") =>
            supabaseStatus = "disconnected"

\* C14: whenever the status is reconnecting, it is connected or
\* disconnected at some later time, also when the initial fetch and the
\* subscription are never answered.
C14_ReconnectingResolves ==
    (supabaseStatus = "reconnecting") ~> (supabaseStatus # "reconnecting")

\* C15: after updateSettings has changed the endpoint or the credential to
\* another pair of credentials, the client is a new one, and the records
\* channel, if any, is one that the new client has subscribed.
C15_CredentialChangeReplaces ==
    ( /\ last.op = "updateSettings"
      /\ last.client # NoClient
      /\ settings.supabaseUrl # 0 /\ settings.supabaseKey # 0
      /\ settings # last.old ) =>
        /\ supabaseClient # NoClient
        /\ supabaseClient.n # last.client.n
        /\ recordsChannel # NoChannel => recordsChannel.client = supabaseClient.n

\* C16: this device has updated a record to an integer stop count while
\* disconnected and another device has then written the record remotely.
\* The initial merge puts the remote row in memory; and once the status is
\* connected, the queue is empty and no pass is running, the remote row has
\* the stop count of this device's edit (checked with every apply call
\* succeeding).
C16_QueuedEditWins ==
    /\ (conflict.theirs # None /\ last.op = "merge") =>
           \A r \in WithId(last.rows, conflict.id) :
               WithId(records, conflict.id) = {r}
    /\ ( /\ conflict.theirs # None
         /\ ParseInt(conflict.stops) = conflict.stops
         /\ supabaseStatus = "connected"
         /\ pendingSync = <<>> /\ passes = <<>> )
       => remote[conflict.id] = conflict.stops

\* C17: a step of updateSettings sets the settings to the merged value and
\* persists them, issues a settings upsert exactly if there was a client and
\* the status was connected, and changes neither the records nor the queue,
\* in memory or persisted; a step in which the upsert fails changes none of
\* the settings, the records and the queue.
C17_UpdateSettingsFrame ==
    [][ /\ last'.op = "updateSettings" =>
              /\ settings' = Spread(settings, last'.form)
              /\ storedSettings' = settings'
              /\ Len(settingsSaves') = Len(settingsSaves) +
                    (IF supabaseClient # NoClient /\ supabaseStatus = "connected"
                     THEN 1 ELSE 0)
              /\ records' = records /\ storedRecords' = storedRecords
              /\ pendingSync' = pendingSync /\ storedPending' = storedPending
        /\ last'.op = "settingsSaveError" =>
              /\ settings' = settings /\ storedSettings' = storedSettings
              /\ records' = records /\ storedRecords' = storedRecords
              /\ pendingSync' = pendingSync /\ storedPending' = storedPending
      ]_vars

\* C17, its case: the upsert issued by updateSettings has failed, with
\* records in memory and operations queued
C17_Witness ==
    /\ last.op = "settingsSaveError"
    /\ records # <<>>
    /\ pendingSync # <<>>
    /\ settings = storedSettings

\* C18: a step of deleteAllData leaves records and queue empty, in memory
\* and persisted, issues a bulk delete exactly if there was a client and the
\* status was connected, and does not change the remote rows itself.
C18_DeleteAllData ==
    [][ last'.op = "deleteAllData" =>
            /\ records' = <<>> /\ storedRecords' = <<>>
            /\ pendingSync' = <<>> /\ storedPending' = <<>>
            /\ wipes' = IF supabaseClient # NoClient /\ supabaseStatus = "connected"
                        THEN Append(wipes, "sent") ELSE wipes
            /\ remote' = remote
      ]_vars

\* C18, its case: deleteAllData was called while disconnected, with records
\* and queued operations, and the remote rows are still there
C18_Witness ==
    /\ last.op = "deleteAllData"
    /\ supabaseStatus = "disconnected"
    /\ last.before # <<>> /\ last.queue # <<>>
    /\ wipes = <<>>
    /\ \E i \in Ids : remote[i] # None

\* C19: addRecord, updateRecord and deleteRecord change the records in
\* memory and the persisted records in whatever status and drain state they
\* are called; no step that counts a remote failure and no end of a pass
\* changes the records; and when a pass ends, every operation whose remote
\* call failed is in the pending queue.
C19_LocalWriteThenQueue ==
    [][ /\ last'.op = "addRecord" =>
              /\ records' = Append(records, [id |-> last'.id, stops |-> last'.stops])
              /\ storedRecords' = records'
        /\ last'.op = "updateRecord" =>
              /\ records' = [i \in 1..Len(records) |->
                                IF records[i].id = last'.id
                                THEN [id |-> last'.id, stops |-> last'.stops]
                                ELSE records[i]]
              /\ storedRecords' = records'
        /\ last'.op = "deleteRecord" =>
              /\ records' = SelectSeq(records, LAMBDA r : r.id # last'.id)
              /\ storedRecords' = records'
        /\ nFails' # nFails =>
              records' = records /\ storedRecords' = storedRecords
        /\ last'.op = "passEnd" =>
              /\ records' = records /\ storedRecords' = storedRecords
              /\ \A i \in 1..Len(last'.ops) :
                    last'.out[i] # "ok" => last'.ops[i] \in Range(pendingSync')
      ]_vars

\* C19, its case: a pass that was running while connected has ended, the
\* remote call of an update failed, the record in memory still has the new
\* value and the update is in the queue
C19_Witness ==
    /\ last.op = "passEnd"
    /\ supabaseStatus = "connected"
    /\ \E i \in 1..Len(last.ops) :
          /\ last.out[i] # "ok"
          /\ last.ops[i].type = "update"
          /\ last.ops[i].record \in Range(records)
          /\ last.ops[i] \in Range(pendingSync)

\* C20: once initialized, the persisted queue is the queue in memory and
\* the persisted records are the records in memory; no step taken before
\* initialization changes the persisted queue, not even between the two
\* renders of the mount; and the mount that follows a restart sets the queue
\* and the records to what they were when the process was restarted.
C20_QueuePersisted ==
    /\ [](isInitialized => storedPending = pendingSync /\ storedRecords = records)
    /\ [][ /\ ~isInitialized => storedPending' = storedPending
           /\ last'.op = "mount" => last'.firstRender = storedPending
           /\ (last.op = "restart" /\ last'.op = "mount") =>
                 pendingSync' = last.queue /\ records' = last.records
         ]_vars

\* C20, its case: the process was restarted while disconnected with two
\* operations in the queue, and the mount has run
C20_Witness ==
    /\ last.op = "mount"
    /\ supabaseStatus = "disconnected"
    /\ Len(pendingSync) = 2
    /\ records # <<>>

\* what the remote store holds for the record of an operation once the
\* operation has been applied and nothing later has touched the row
RemoteAfter(op) ==
    IF op.type = "delete" THEN None ELSE ParseInt(op.record.stops)

\* C21: when a pass has ended, the queue is empty and no pass is left, and
\* no other device has written, the remote row of every record that was
\* mutated while the pass ran is what the latest of these mutations makes
\* it (checked with every apply call succeeding).
C21_LatestMutationAtRemote ==
    ( /\ last.op = "passEnd"
      /\ pendingSync = <<>> /\ passes = <<>>
      /\ nRemoteOps = 0 )
    => \A i \in 1..Len(last.late) :
          (\A j \in (i + 1)..Len(last.late) : OpId(last.late[j]) # OpId(last.late[i]))
             => remote[OpId(last.late[i])] = RemoteAfter(last.late[i])

\* C22: the step that merges the fetched rows changes the pending queue
\* neither in memory nor as persisted.
C22_MergeKeepsQueue ==
    [][ last'.op = "merge" =>
            pendingSync' = pendingSync /\ storedPending' = storedPending ]_vars

\* C22, its case: the merge met a record that only the local side had and
\* that has no queued operation, and a queued update of a record whose
\* remote row differed and has replaced it
C22_Witness ==
    /\ last.op = "merge"
    /\ \E l \in Range(last.local) :
          l.id \notin RecIds(last.rows) /\ l.id \notin OpIds(pendingSync)
    /\ \E p \in Range(pendingSync), r \in Range(last.rows) :
          /\ p.type = "update" /\ r.id = OpId(p) /\ r # p.record
          /\ r \in Range(records)

\* C27: while there is no remote client the status is disconnected, and a
\* step taken while there is none changes neither the status nor the
\* records; in particular the status connected implies a remote client.
C27_TornDownStaysDisconnected ==
    /\ [](supabaseClient = NoClient => supabaseStatus = "disconnected")
    /\ [][ (supabaseClient = NoClient /\ supabaseClient' = NoClient
              /\ last'.op \notin {"mount", "addRecord", "updateRecord",
                                  "deleteRecord", "deleteAllData"}) =>
               supabaseStatus' = supabaseStatus /\ records' = records ]_vars

\* C23: a state in which the status is connected, the queue is not empty
\* and no drain pass is running is followed by one in which a pass is
\* running.
C23_PassEventuallyStarted ==
    (supabaseStatus = "connected" /\ pendingSync # <<>> /\ passes = <<>>)
        ~> (passes # <<>>)

\* the type of the operation that a handler hands to syncOrQueue
OpType(handler) ==
    CASE handler = "addRecord" -> "add"
      [] handler = "updateRecord" -> "update"
      [] handler = "deleteRecord" -> "delete"

IdSeq(rs) == [i \in 1..Len(rs) |-> rs[i].id]

\* C26: the records in memory never hold two records of one id, and every
\* step leaves the ids that are there before and after it in the same
\* order, so that no record takes another id.
C26_UniqueStableIds ==
    /\ [](Len(records) = Cardinality(RecIds(records)))
    /\ [][ FilterSeq(IdSeq(records'), RecIds(records))
             = FilterSeq(IdSeq(records), RecIds(records')) ]_vars

\* C26, its case: a realtime INSERT or UPDATE for an id that is in memory
\* with other values has been applied, with two records in memory
C26_Witness ==
    /\ last.op = "event"
    /\ last.payload.eventType = "UPSERT"
    /\ last.payload.new.id \in RecIds(last.before)
    /\ records # last.before
    /\ Len(records) = 2

\* C28: a pass during which deleteAllData ran does not, when it ends, leave
\* any of its operations in the queue, and makes no remote call of its own
\* take effect once the bulk delete issued meanwhile has been executed.
C28_WipeDuringPass ==
    /\ []((last.op = "passEnd" /\ last.wiped # "no") =>
             Range(last.ops) \cap Range(pendingSync) = {})
    /\ [][ \A k \in 1..Len(passes) :
             (passes[k].wiped = "remote" /\ passes[k].phase = "sent"
                /\ k <= Len(passes') /\ passes'[k].ops = passes[k].ops
                /\ passes'[k].idx = passes[k].idx)
             => passes'[k].phase = "sent" ]_vars

\* C29: when the status is connected, the merge of the current connection
\* is done, the queue is empty, no pass is running, the channel is joined
\* and has no event left to deliver, and no other device has written and
\* the channel has never failed, records in memory whose stop counts are
\* all integers are the rows of the remote store (checked with every apply
\* call succeeding).
C29_Converged ==
    ( /\ supabaseStatus = "connected" /\ MergeDone
      /\ pendingSync = <<>> /\ passes = <<>>
      /\ recordsChannel # NoChannel /\ recordsChannel.joined /\ events = <<>>
      /\ nRemoteOps = 0 /\ nChanErr = 0
      /\ \A r \in Range(records) : ParseInt(r.stops) = r.stops )
    => Range(records) = Range(RemoteRows(remote))

\* C25: a step in which the settings query of the initial fetch returns: if
\* it found a row, the settings then have the value of the row for every
\* field of the row and their former value for every other field, and they
\* are persisted as merged; if it found no row, the settings, in memory and
\* persisted, the client and the status are unchanged.  In both cases the
\* fetch goes on with the records query.
C25_SettingsMerge ==
    [][ last'.op = "settingsMerge" =>
          /\ [last'.fetch EXCEPT !.phase = "records"] \in fetches'
          /\ IF last'.row # NoRow
             THEN /\ DOMAIN settings' = DOMAIN settings \cup DOMAIN last'.row
                  /\ \A k \in DOMAIN last'.row : settings'[k] = last'.row[k]
                  /\ \A k \in DOMAIN settings \ DOMAIN last'.row :
                         settings'[k] = settings[k]
                  /\ storedSettings' = settings'
             ELSE /\ settings' = settings /\ storedSettings' = storedSettings
                  /\ supabaseClient' = supabaseClient
                  /\ supabaseStatus' = supabaseStatus
      ]_vars

\* C25, its case: the row that was merged had another number of machines
\* than the settings, which had a key of the endpoint and an API key
C25_Witness ==
    /\ last.op = "settingsMerge"
    /\ last.row # NoRow
    /\ last.row.totalMachines # last.prev.totalMachines
    /\ last.prev.supabaseKey # 0 /\ last.prev.geminiApiKey # 0
    /\ settings.totalMachines = last.row.totalMachines
    /\ settings.supabaseKey = last.prev.supabaseKey
    /\ settings.geminiApiKey = last.prev.geminiApiKey
    /\ storedSettings = settings

\* C30: no settings row in flight to the remote store, and no settings row
\* in it, has a field supabaseKey or geminiApiKey; and the row that
\* updateSettings has just issued is the row it would have issued with any
\* other key of the endpoint and any other API key in the settings.
C30_PayloadWithoutSecrets ==
    /\ \A k \in 1..Len(settingsSaves) :
           DOMAIN settingsSaves[k].row \cap {"supabaseKey", "geminiApiKey"} = {}
    /\ DOMAIN settingsRow \cap {"supabaseKey", "geminiApiKey"} = {}
    /\ (last.op = "updateSettings" /\ SavesRemotely(last.client, last.status)) =>
           /\ settingsSaves # <<>>
           /\ \A x \in {0, 1, 2}, y \in {0, 1} :
                  settingsSaves[Len(settingsSaves)].row =
                      SettingsPayload([last.new EXCEPT !.supabaseKey = x,
                                                       !.geminiApiKey = y])

\* C30, its case: updateSettings has issued the upsert of settings that have
\* a key of the endpoint and an API key
C30_Witness ==
    /\ last.op = "updateSettings"
    /\ SavesRemotely(last.client, last.status)
    /\ settingsSaves # <<>>
    /\ last.new.supabaseKey # 0 /\ last.new.geminiApiKey # 0
    /\ settingsSaves[Len(settingsSaves)].row.totalMachines = last.new.totalMachines

====
